---- MODULE Spec2Model ----
(***************************************************************************)
(* A model of the project-path decoder of cclog_helper.py:                 *)
(* decode_project_path, decode_path_progressive, try_segment_combinations  *)
(* and the module-level _path_cache, run against a filesystem that is a    *)
(* set of existing directories and a current working directory.            *)
(*                                                                         *)
(* A Python str is a sequence of one-character strings, so "/a/.a" is      *)
(* <<"/", "a", "/", ".", "a">>; Python's None is the value None below.     *)
(* Indices into strings are 0-based as in the source (s[k] is s[k + 1]     *)
(* here).                                                                  *)
(***************************************************************************)
EXTENDS Naturals, Integers, Sequences, FiniteSets, TLC

VARIABLES
    fs,                  \* the directories that exist (absolute, normalised paths)
    cwd,                 \* the process's working directory
    _path_cache,         \* _path_cache: encoded name -> decoded path
    pc,                  \* per caller: "idle", "scan", "store", "done"
    encoded_name,        \* per caller: the argument of decode_project_path
    encoded,             \* per caller: the argument of decode_path_progressive
    current_path,        \* per caller: current_path of decode_path_progressive
    unmatched_segments,  \* per caller: unmatched_segments
    i,                   \* per caller: the scan cursor i
    iterations,          \* per caller: the times the body of the scan loop was entered
    result,              \* per caller: the value the call returns
    probes,              \* per caller: the paths os.path.exists was asked, in order
    branch,              \* per caller: the return statement the call left through
    returned,            \* encoded name -> the values calls have returned for it
    arguments,           \* the names callers pass to decode_project_path
    session_file,        \* the file parse_session_minimal is given
    summary_index,       \* the summary_index parse_session_minimal is given
    summary,             \* what parse_session_minimal returned
    project_dir,         \* the files of the directory build_summary_index reads
    built_index,         \* what build_summary_index returned
    seconds,             \* the argument of format_duration
    formatted,           \* what format_duration returned
    called               \* the helper that has been called and has returned, "" before

vars == <<fs, cwd, _path_cache, pc, encoded_name, encoded, current_path,
          unmatched_segments, i, iterations, result, probes, branch, returned, arguments,
          session_file, summary_index, summary, project_dir, built_index,
          seconds, formatted, called>>

\* the variables of the decoder and those of the other helpers
decoderVars == <<fs, cwd, _path_cache, pc, encoded_name, encoded, current_path,
                 unmatched_segments, i, iterations, result, probes, branch, returned, arguments>>
helperVars == <<session_file, summary_index, summary, project_dir, built_index,
                seconds, formatted, called>>

----------------------------------------------------------------------------
(* Bounds of the model. *)

MaxNameLen == 6     \* encoded names have at most this many characters
MaxEntries == 2     \* the filesystem holds at most this many directories
MaxLines == 3       \* a session file has at most this many lines after its padding

Letters == {"a"}
NameChars == Letters \cup {"-"}
Chars == Letters \cup {"-", ".", "_", "/"}

Procs == {1, 2}     \* callers; Spec runs the single logical caller 1
None == <<"None">>  \* Python's None: no sequence of Chars equals it

IsStr(x) == \A k \in 1..Len(x) : x[k] \in Chars

RECURSIVE StringsUpTo(_)
StringsUpTo(n) ==
    IF n = 0 THEN {<<>>}
    ELSE LET S == StringsUpTo(n - 1)
         IN  S \cup {Append(s, c) : s \in {t \in S : Len(t) = n - 1}, c \in NameChars}

Names == StringsUpTo(MaxNameLen)

----------------------------------------------------------------------------
(* Python string primitives. *)

\* F of the value of x: Python evaluates an argument or an assigned
\* expression once and passes the value on
Once(x, F(_)) == CHOOSE y \in {F(v) : v \in {x}} : TRUE

\* StartsWith as "c in s" would have it
StartsWithAnywhere(s, c) == \E k \in 1..Len(s) : s[k] = c

\* s.startswith(c) for a one-character c
StartsWith(s, c) == Len(s) > 0 /\ s[1] = c

\* s[lo:hi]
Slice(s, lo, hi) == SubSeq(s, lo + 1, hi)

\* s.find(c, from): the least index >= from holding c, or -1
Find(s, c, from) ==
    LET hits == {k \in from..(Len(s) - 1) : s[k + 1] = c}
    IN  IF hits = {} THEN -1 ELSE CHOOSE k \in hits : \A m \in hits : k <= m

\* sep.join(segments)
RECURSIVE Join(_, _)
Join(sep, segments) ==
    Once(segments, LAMBDA v :
        IF v = <<>> THEN <<>>
        ELSE IF Len(v) = 1 THEN v[1]
        ELSE v[1] \o sep \o Join(sep, Tail(v)))

\* Python truthiness of a str-or-None
Truthy(x) == x # None /\ x # <<>>

----------------------------------------------------------------------------
(* The filesystem: os.path.join and os.path.exists. *)

Root == <<"/">>

\* the components of a path: split on "/", without the empty and the "." ones
RECURSIVE Components(_)
Components(path) ==
    Once(path, LAMBDA v :
        IF v = <<>> THEN <<>>
        ELSE LET nd == Find(v, "/", 0)
                 head == IF nd = -1 THEN v ELSE Slice(v, 0, nd)
                 rest == IF nd = -1 THEN <<>> ELSE Slice(v, nd + 1, Len(v))
                 keep == IF head = <<>> \/ head = <<".">> THEN <<>> ELSE <<head>>
             IN  keep \o Components(rest))

RECURSIVE FromComponents(_)
FromComponents(cs) ==
    Once(cs, LAMBDA c :
        IF c = <<>> THEN <<>> ELSE <<"/">> \o c[1] \o FromComponents(Tail(c)))

\* the absolute path the kernel resolves an absolute path to
Normalize(path) ==
    Once(Components(path), LAMBDA cs : IF cs = <<>> THEN Root ELSE FromComponents(cs))

\* os.path.join(a, b) of posixpath
OsPathJoin(a, b) ==
    IF StartsWith(b, "/") THEN b
    ELSE IF a = <<>> \/ a[Len(a)] = "/" THEN a \o b
    ELSE a \o <<"/">> \o b

\* os.path.exists(path): "" does not exist, a relative path is resolved
\* against the working directory, every entry is a directory
OsPathExists(path) ==
    Once(path, LAMBDA v :
        /\ v # <<>>
        /\ LET abs == IF StartsWith(v, "/") THEN v ELSE cwd \o <<"/">> \o v
           IN  Once(Normalize(abs), LAMBDA n : n = Root \/ n \in fs))

----------------------------------------------------------------------------
(* try_segment_combinations.  Each operator yields the value returned, the *)
(* paths it asked os.path.exists about, in the order it asked, and the     *)
(* number of activations of try_segment_combinations nested at its deepest *)
(* (1 for a call that does not call itself).                               *)

SeparatorsDotFirst == <<".", "-", "_">>    \* Separators in another order
Separators == <<"-", ".", "_">>     \* the list given to itertools.product
Prefixes == <<".", "_", "-">>       \* the list of the prefix loop

NoMatch == [result |-> None, probed |-> <<>>, depth |-> 1]

\* itertools.product(Separators, repeat=n), in the order it yields
RECURSIVE Product(_)
Product(n) ==
    IF n = 0 THEN << <<>> >>
    ELSE Once(Product(n - 1), LAMBDA rest :
             LET m == Len(rest)
             IN  [k \in 1..(Len(Separators) * m) |->
                     <<Separators[((k - 1) \div m) + 1]>> \o rest[((k - 1) % m) + 1]])

\* combined = segments[0]; for i, sep in enumerate(separators): combined += sep + segments[i + 1]
RECURSIVE CombinedUpTo(_, _, _)
CombinedUpTo(segments, separators, k) ==
    IF k = 0 THEN segments[1]
    ELSE CombinedUpTo(segments, separators, k - 1) \o <<separators[k]>> \o segments[k + 1]

\* Combined with the separators taken from the right
CombinedFromRight(segments, separators) ==
    CombinedUpTo(segments,
                 [k \in 1..Len(separators) |-> separators[Len(separators) + 1 - k]],
                 Len(separators))

Combined(segments, separators) == CombinedUpTo(segments, separators, Len(separators))

\* one probe: test_path if os.path.exists(test_path) else None
ProbeOne(test_path) ==
    Once(test_path, LAMBDA v :
        [result |-> IF OsPathExists(v) THEN v ELSE None,
         probed |-> <<v>>,
         depth |-> 1])

\* the loop over itertools.product, from its k-th tuple on
RECURSIVE ProductLoop(_, _, _, _)
ProductLoop(base_path, segments, products, k) ==
    IF k > Len(products) THEN NoMatch
    ELSE Once(ProbeOne(OsPathJoin(base_path, Combined(segments, products[k]))), LAMBDA here :
             IF here.result # None THEN here
             ELSE Once(ProductLoop(base_path, segments, products, k + 1), LAMBDA later :
                      [result |-> later.result, probed |-> here.probed \o later.probed,
                       depth |-> 1]))

RECURSIVE try_segment_combinations(_, _)
RECURSIVE PrefixLoop(_, _, _)

\* the loop "for prefix in [".", "_", "-"]", from its k-th prefix on
PrefixLoop(base_path, remaining_segments, k) ==
    IF k > Len(Prefixes) THEN NoMatch
    ELSE LET prefix == <<Prefixes[k]>>
             attempt ==
                 IF remaining_segments # <<>>
                 THEN LET prefixed_segments ==
                              <<prefix \o remaining_segments[1]>> \o Tail(remaining_segments)
                      IN  Once(try_segment_combinations(base_path, prefixed_segments), LAMBDA sub :
                              [result |-> IF Truthy(sub.result) THEN sub.result ELSE None,
                               probed |-> sub.probed,
                               depth |-> 1 + sub.depth])
                 ELSE ProbeOne(OsPathJoin(base_path, prefix))
         IN  Once(attempt, LAMBDA here :
                 IF here.result # None THEN here
                 ELSE Once(PrefixLoop(base_path, remaining_segments, k + 1), LAMBDA later :
                          [result |-> later.result, probed |-> here.probed \o later.probed,
                           depth |-> IF later.depth > here.depth THEN later.depth
                                     ELSE here.depth]))

try_segment_combinations(base_path, segments) ==
    Once(<<base_path, segments>>, LAMBDA args :
        LET base == args[1]
            segs == args[2]
        IN  IF segs = <<>> THEN NoMatch
            ELSE IF segs[1] = <<>> THEN PrefixLoop(base, Tail(segs), 1)
            ELSE IF Len(segs) = 1 THEN ProbeOne(OsPathJoin(base, segs[1]))
            ELSE Once(Product(Len(segs) - 1), LAMBDA products :
                     ProductLoop(base, segs, products, 1)))

----------------------------------------------------------------------------
(* The filesystems and the initial state. *)

\* the names a directory may have
EntryNames ==
    { <<"a">>, <<".", "a">>, <<"_", "a">>, <<"-", "a">>,
      <<"a", ".", "a">>, <<"a", "-", "a">>, <<"a", "_", "a">>,
      <<"a", "-", "a", ".", "a">>, <<"a", ".", "a", "-", "a">> }

\* the names a directory inside /a may have
ChildNames ==
    { <<"a">>, <<".", "a">>, <<"_", "a">>, <<"a", ".", "a">>, <<"a", "-", "a">> }

\* directories lie at the top level and inside /a
TopLevel == {<<"/">> \o c : c \in EntryNames}
Universe == TopLevel \cup {<<"/", "a", "/">> \o c : c \in ChildNames}

RECURSIVE SubsetsUpTo(_, _)
SubsetsUpTo(S, n) ==
    IF n = 0 THEN {{}}
    ELSE LET smaller == SubsetsUpTo(S, n - 1)
         IN  smaller \cup {T \cup {x} : T \in smaller, x \in S}

\* a directory together with the directories above it
Ancestors(path) ==
    LET cs == Components(path)
    IN  {FromComponents(SubSeq(cs, 1, k)) : k \in 1..Len(cs)}

\* up to MaxEntries directories are made, as by os.makedirs: parents come along
FileSystems ==
    {UNION {Ancestors(d) : d \in S} : S \in SubsetsUpTo(Universe, MaxEntries)}

\* the process runs in the root or, where it exists, in /a
WorkingDirs == {<<"/", "a">>}

Empty == <<>>       \* the empty dict, the empty list and the empty str

\* not called yet, and nothing to call it with
Unset == [unset |-> TRUE]

\* a process that never calls the helpers beside the decoder
HelpersUnused ==
    /\ session_file = Unset
    /\ summary_index = Unset
    /\ summary = Unset
    /\ project_dir = Unset
    /\ built_index = Unset
    /\ seconds = 0
    /\ formatted = Unset
    /\ called = ""

\* a run decodes one name, any of Names, as often as it likes
Arguments == {{name} : name \in Names}

Init ==
    /\ fs \in FileSystems
    /\ cwd \in {Root} \cup (fs \cap WorkingDirs)
    /\ _path_cache = Empty
    /\ pc = [p \in Procs |-> "idle"]
    /\ encoded_name = [p \in Procs |-> Empty]
    /\ encoded = [p \in Procs |-> Empty]
    /\ current_path = [p \in Procs |-> Empty]
    /\ unmatched_segments = [p \in Procs |-> Empty]
    /\ i = [p \in Procs |-> 0]
    /\ iterations = [p \in Procs |-> 0]
    /\ result = [p \in Procs |-> None]
    /\ probes = [p \in Procs |-> Empty]
    /\ branch = [p \in Procs |-> "none"]
    /\ returned = Empty
    /\ arguments \in Arguments
    /\ HelpersUnused

----------------------------------------------------------------------------
(* decode_project_path. *)

\* CacheStore keyed by the name without its first character
CacheStoreStripped(cache, name, value) ==
    ((IF name = Empty THEN name ELSE Tail(name)) :> value) @@ cache

\* CacheStore that forgets the entries of other names
CacheStoreAlone(cache, name, value) == (name :> value)

\* CacheStore that stores nothing
CacheStoreNothing(cache, name, value) == cache

\* _path_cache[name] = value
CacheStore(cache, name, value) == (name :> value) @@ cache

\* what the caller is handed: the call's return value, noted per name
Hand(p, name, value) ==
    /\ result' = [result EXCEPT ![p] = value]
    /\ returned' =
           (name :> ((IF name \in DOMAIN returned THEN returned[name] ELSE {})
                        \cup {value})) @@ returned
    /\ pc' = [pc EXCEPT ![p] = "done"]


\* if encoded_name in _path_cache: return _path_cache[encoded_name]
CallCached(p, name) ==
    /\ pc[p] = "idle"
    /\ name \in DOMAIN _path_cache
    /\ encoded_name' = [encoded_name EXCEPT ![p] = name]
    /\ branch' = [branch EXCEPT ![p] = "cached"]
    /\ Hand(p, name, _path_cache[name])
    /\ UNCHANGED helperVars
    /\ UNCHANGED <<iterations, fs, cwd, arguments, _path_cache, encoded, current_path,
                   unmatched_segments, i, probes>>

\* if not encoded_name.startswith("-"): cache and return the name itself
CallRelative(p, name) ==
    /\ pc[p] = "idle"
    /\ name \notin DOMAIN _path_cache
    /\ ~StartsWith(name, "-")
    /\ encoded_name' = [encoded_name EXCEPT ![p] = name]
    /\ _path_cache' = CacheStore(_path_cache, name, name)
    /\ branch' = [branch EXCEPT ![p] = "relative"]
    /\ Hand(p, name, name)
    /\ UNCHANGED helperVars
    /\ UNCHANGED <<iterations, fs, cwd, arguments, encoded, current_path, unmatched_segments, i, probes>>

\* result = decode_path_progressive(encoded_name[1:]): enter the function
CallDecode(p, name) ==
    /\ pc[p] = "idle"
    /\ name \notin DOMAIN _path_cache
    /\ StartsWith(name, "-")
    /\ encoded_name' = [encoded_name EXCEPT ![p] = name]
    /\ encoded' = [encoded EXCEPT ![p] = Slice(name, 1, Len(name))]
    /\ current_path' = [current_path EXCEPT ![p] = Empty]
    /\ unmatched_segments' = [unmatched_segments EXCEPT ![p] = Empty]
    /\ i' = [i EXCEPT ![p] = 0]
    /\ iterations' = [iterations EXCEPT ![p] = 0]
    /\ pc' = [pc EXCEPT ![p] = "scan"]
    /\ UNCHANGED helperVars
    /\ UNCHANGED <<fs, cwd, arguments, _path_cache, result, probes, branch, returned>>

\* _path_cache[encoded_name] = result; return result
Store(p) ==
    /\ pc[p] = "store"
    /\ _path_cache' = CacheStore(_path_cache, encoded_name[p], result[p])
    /\ Hand(p, encoded_name[p], result[p])
    /\ UNCHANGED helperVars
    /\ UNCHANGED <<iterations, fs, cwd, arguments, encoded_name, encoded, current_path,
                   unmatched_segments, i, probes, branch>>

\* the caller takes the value; the call's locals are gone
Return(p) ==
    /\ pc[p] = "done"
    /\ pc' = [pc EXCEPT ![p] = "idle"]
    /\ encoded_name' = [encoded_name EXCEPT ![p] = Empty]
    /\ encoded' = [encoded EXCEPT ![p] = Empty]
    /\ current_path' = [current_path EXCEPT ![p] = Empty]
    /\ unmatched_segments' = [unmatched_segments EXCEPT ![p] = Empty]
    /\ i' = [i EXCEPT ![p] = 0]
    /\ iterations' = [iterations EXCEPT ![p] = 0]
    /\ result' = [result EXCEPT ![p] = None]
    /\ probes' = [probes EXCEPT ![p] = Empty]
    /\ branch' = [branch EXCEPT ![p] = "none"]
    /\ UNCHANGED helperVars
    /\ UNCHANGED <<fs, cwd, arguments, _path_cache, returned>>

----------------------------------------------------------------------------
(* decode_path_progressive: one action per path through the loop body. *)

\* GreedyMatch without the test that the segment is not empty
GreedyMatchAnySegment(path, segment) == OsPathExists(path \o <<"/">> \o segment)

\* GreedyMatch without the existence probe
GreedyMatchUnprobed(path, segment) == segment # Empty

\* segment and os.path.exists(current_path + "/" + segment)
GreedyMatch(path, segment) ==
    segment # Empty /\ OsPathExists(path \o <<"/">> \o segment)

\* the probes that condition makes: none for an empty segment
GreedyProbes(path, segment) ==
    IF segment # Empty THEN <<path \o <<"/">> \o segment>> ELSE Empty

\* if segment: unmatched_segments.append(segment)
AppendSegment(segments, segment) ==
    IF segment # Empty THEN Append(segments, segment) ELSE segments

\* ResultOrFallback handing the resolver's value on as it is
ResultUnchecked(found, path, segments) == found

\* result if result else current_path + "/" + "-".join(unmatched_segments)
ResultOrFallback(found, path, segments) ==
    IF Truthy(found) THEN found ELSE path \o <<"/">> \o Join(<<"-">>, segments)

\* Advance that also skips the character after the delimiter
AdvanceTwo(next_dash) == next_dash + 2

\* i = next_dash + 1
Advance(next_dash) == next_dash + 1

\* the exit of a scan: the value goes back to decode_project_path
Leave(p, value, how) ==
    /\ result' = [result EXCEPT ![p] = value]
    /\ branch' = [branch EXCEPT ![p] = how]
    /\ pc' = [pc EXCEPT ![p] = "store"]

\* while i < len(encoded), next_dash == -1, the last segment
ScanLast(p) ==
    /\ pc[p] = "scan"
    /\ iterations' = [iterations EXCEPT ![p] = @ + 1]
    /\ i[p] < Len(encoded[p])
    /\ Find(encoded[p], "-", i[p]) = -1
    /\ LET segment == Slice(encoded[p], i[p], Len(encoded[p]))
       IN  IF unmatched_segments[p] # Empty \/ segment = Empty
           THEN LET segments == AppendSegment(unmatched_segments[p], segment)
                    found == try_segment_combinations(current_path[p], segments)
                IN  /\ unmatched_segments' = [unmatched_segments EXCEPT ![p] = segments]
                    /\ probes' = [probes EXCEPT ![p] = @ \o found.probed]
                    /\ Leave(p, ResultOrFallback(found.result, current_path[p], segments),
                             IF Truthy(found.result) THEN "resolved" ELSE "fallback")
           ELSE /\ Leave(p, current_path[p] \o <<"/">> \o segment, "appended")
                /\ UNCHANGED <<unmatched_segments, probes>>
    /\ UNCHANGED helperVars
    /\ UNCHANGED <<fs, cwd, arguments, _path_cache, encoded_name, encoded, current_path, i, returned>>

\* a dash ahead and unmatched segments pending: try the combinations
ScanUnmatched(p) ==
    /\ pc[p] = "scan"
    /\ iterations' = [iterations EXCEPT ![p] = @ + 1]
    /\ i[p] < Len(encoded[p])
    /\ Find(encoded[p], "-", i[p]) # -1
    /\ unmatched_segments[p] # Empty
    /\ LET next_dash == Find(encoded[p], "-", i[p])
           segment == Slice(encoded[p], i[p], next_dash)
           segments == AppendSegment(unmatched_segments[p], segment)
           found == try_segment_combinations(current_path[p], segments)
       IN  /\ probes' = [probes EXCEPT ![p] = @ \o found.probed]
           /\ IF Truthy(found.result)
              THEN /\ current_path' = [current_path EXCEPT ![p] = found.result]
                   /\ unmatched_segments' = [unmatched_segments EXCEPT ![p] = Empty]
              ELSE /\ unmatched_segments' = [unmatched_segments EXCEPT ![p] = segments]
                   /\ UNCHANGED current_path
           /\ i' = [i EXCEPT ![p] = Advance(next_dash)]
    /\ UNCHANGED helperVars
    /\ UNCHANGED <<fs, cwd, arguments, _path_cache, pc, encoded_name, encoded, result, branch, returned>>

\* a dash ahead and nothing pending: take the segment as a directory if it exists
ScanGreedy(p) ==
    /\ pc[p] = "scan"
    /\ iterations' = [iterations EXCEPT ![p] = @ + 1]
    /\ i[p] < Len(encoded[p])
    /\ Find(encoded[p], "-", i[p]) # -1
    /\ unmatched_segments[p] = Empty
    /\ LET next_dash == Find(encoded[p], "-", i[p])
           segment == Slice(encoded[p], i[p], next_dash)
       IN  /\ probes' = [probes EXCEPT ![p] = @ \o GreedyProbes(current_path[p], segment)]
           /\ IF GreedyMatch(current_path[p], segment)
              THEN /\ current_path' = [current_path EXCEPT ![p] = @ \o <<"/">> \o segment]
                   /\ UNCHANGED unmatched_segments
              ELSE /\ unmatched_segments' = [unmatched_segments EXCEPT ![p] = Append(@, segment)]
                   /\ UNCHANGED current_path
           /\ i' = [i EXCEPT ![p] = Advance(next_dash)]
    /\ UNCHANGED helperVars
    /\ UNCHANGED <<fs, cwd, arguments, _path_cache, pc, encoded_name, encoded, result, branch, returned>>

\* the loop ends with the cursor at the end: return current_path
ScanExit(p) ==
    /\ pc[p] = "scan"
    /\ i[p] >= Len(encoded[p])
    /\ Leave(p, current_path[p], "exhausted")
    /\ UNCHANGED helperVars
    /\ UNCHANGED <<iterations, fs, cwd, arguments, _path_cache, encoded_name, encoded, current_path,
                   unmatched_segments, i, probes, returned>>

----------------------------------------------------------------------------
(* The single logical caller of the design: caller 1 decodes the name of   *)
(* arguments, call after call; the filesystem stays as it is.              *)

Step(p) ==
    \/ \E name \in arguments : CallCached(p, name)
    \/ \E name \in arguments : CallRelative(p, name)
    \/ \E name \in arguments : CallDecode(p, name)
    \/ ScanLast(p)
    \/ ScanUnmatched(p)
    \/ ScanGreedy(p)
    \/ ScanExit(p)
    \/ Store(p)
    \/ Return(p)

Next == Step(1)

Spec == Init /\ [][Next]_vars

FewerFileSystems ==
    {UNION {Ancestors(d) : d \in S} : S \in SubsetsUpTo(Universe, MaxEntries - 1)}

\* fewer filesystems, and the process runs in the root
InitFair ==
    /\ Init
    /\ fs \in FewerFileSystems
    /\ cwd = Root

\* the caller is a running thread: a step it can take is taken
SpecFair == InitFair /\ [][Next]_vars /\ WF_vars(Step(1))

----------------------------------------------------------------------------
(* The cache over a process's life: caller 1 decodes several names, again  *)
(* and again, while directories are made and removed around it.            *)

\* the names decoded: one not led by the delimiter, one ending with it, one
\* led by an empty segment, one of two plain segments
CacheNames ==
    { <<"a">>, <<"-", "-", "a", "-">>, <<"-", "-", "a">>, <<"-", "a", "-", "a">> }

\* the directories made and removed
CacheUniverse ==
    { <<"/", "a">>, <<"/", ".", "a">>, <<"/", "a", "/", "a">>, <<"/", "a", ".", "a">> }

CacheFileSystems == {f \in FileSystems : f \subseteq CacheUniverse}

\* path is d or lies inside d
Inside(path, d) ==
    path = d \/ (Len(path) > Len(d) /\ SubSeq(path, 1, Len(d) + 1) = d \o <<"/">>)

InitCache ==
    /\ fs \in CacheFileSystems
    /\ cwd \in {Root} \cup (fs \cap WorkingDirs)
    /\ _path_cache = Empty
    /\ pc = [p \in Procs |-> "idle"]
    /\ encoded_name = [p \in Procs |-> Empty]
    /\ encoded = [p \in Procs |-> Empty]
    /\ current_path = [p \in Procs |-> Empty]
    /\ unmatched_segments = [p \in Procs |-> Empty]
    /\ i = [p \in Procs |-> 0]
    /\ iterations = [p \in Procs |-> 0]
    /\ result = [p \in Procs |-> None]
    /\ probes = [p \in Procs |-> Empty]
    /\ branch = [p \in Procs |-> "none"]
    /\ returned = Empty
    /\ arguments = CacheNames
    /\ HelpersUnused

\* os.makedirs(d, exist_ok=True) by the environment
Makedirs(d) ==
    /\ d \notin fs
    /\ fs \cup Ancestors(d) \in CacheFileSystems
    /\ fs' = fs \cup Ancestors(d)
    /\ UNCHANGED helperVars
    /\ UNCHANGED <<iterations, cwd, arguments, _path_cache, pc, encoded_name, encoded, current_path,
                   unmatched_segments, i, result, probes, branch, returned>>

\* shutil.rmtree(d) by the environment; the working directory stays
Rmtree(d) ==
    /\ d \in fs
    /\ ~Inside(cwd, d)
    /\ fs' = {path \in fs : ~Inside(path, d)}
    /\ UNCHANGED helperVars
    /\ UNCHANGED <<iterations, cwd, arguments, _path_cache, pc, encoded_name, encoded, current_path,
                   unmatched_segments, i, result, probes, branch, returned>>

NextCache ==
    \/ Step(1)
    \/ \E d \in CacheUniverse : Makedirs(d)
    \/ \E d \in CacheUniverse : Rmtree(d)

SpecCache == InitCache /\ [][NextCache]_vars

----------------------------------------------------------------------------
(* Two callers without a lock: threads 1 and 2 decode names of arguments,  *)
(* the same one or different ones, call after call, on a filesystem that   *)
(* stays as it is.  A step is one of: the cache check, an iteration of the *)
(* scan with its probes, the cache write.  Between the check and the write *)
(* of a call the other caller may take any of its steps.                   *)

\* the names two callers are given: one name for both, or two names
TwoCallerArguments ==
    {S \in SUBSET CacheNames : Cardinality(S) \in {1, 2}}

InitTwo ==
    /\ fs \in CacheFileSystems
    /\ cwd \in {Root} \cup (fs \cap WorkingDirs)
    /\ _path_cache = Empty
    /\ pc = [p \in Procs |-> "idle"]
    /\ encoded_name = [p \in Procs |-> Empty]
    /\ encoded = [p \in Procs |-> Empty]
    /\ current_path = [p \in Procs |-> Empty]
    /\ unmatched_segments = [p \in Procs |-> Empty]
    /\ i = [p \in Procs |-> 0]
    /\ iterations = [p \in Procs |-> 0]
    /\ result = [p \in Procs |-> None]
    /\ probes = [p \in Procs |-> Empty]
    /\ branch = [p \in Procs |-> "none"]
    /\ returned = Empty
    /\ arguments \in TwoCallerArguments
    /\ HelpersUnused

\* if not encoded_name.startswith("-"): the cache check of the relative
\* branch; its cache write is the step after it
CheckRelative(p, name) ==
    /\ pc[p] = "idle"
    /\ name \notin DOMAIN _path_cache
    /\ ~StartsWith(name, "-")
    /\ encoded_name' = [encoded_name EXCEPT ![p] = name]
    /\ Leave(p, name, "relative")
    /\ UNCHANGED helperVars
    /\ UNCHANGED <<iterations, fs, cwd, arguments, _path_cache, encoded, current_path,
                   unmatched_segments, i, probes, returned>>

StepTwo(p) ==
    \/ \E name \in arguments : CallCached(p, name)
    \/ \E name \in arguments : CheckRelative(p, name)
    \/ \E name \in arguments : CallDecode(p, name)
    \/ ScanLast(p)
    \/ ScanUnmatched(p)
    \/ ScanGreedy(p)
    \/ ScanExit(p)
    \/ Store(p)
    \/ Return(p)

NextTwo ==
    \/ StepTwo(1)
    \/ StepTwo(2)

SpecTwo == InitTwo /\ [][NextTwo]_vars

\* decode_path_progressive run from the cursor to its return, nothing else
\* running: the value of the loop of lines 516-564 and the return of 566
RECURSIVE ScanLoop(_, _, _, _)
ScanLoop(enc, path, segs, at) ==
    Once(<<enc, path, segs, at>>, LAMBDA v :
        LET e == v[1]
            cur == v[2]
            pending == v[3]
            k == v[4]
            next_dash == Find(e, "-", k)
        IN  IF k >= Len(e) THEN cur
            ELSE IF next_dash = -1
            THEN LET segment == Slice(e, k, Len(e))
                 IN  IF pending # Empty \/ segment = Empty
                     THEN Once(AppendSegment(pending, segment), LAMBDA segments :
                              ResultOrFallback(try_segment_combinations(cur, segments).result,
                                               cur, segments))
                     ELSE cur \o <<"/">> \o segment
            ELSE LET segment == Slice(e, k, next_dash)
                 IN  IF pending # Empty
                     THEN Once(AppendSegment(pending, segment), LAMBDA segments :
                              Once(try_segment_combinations(cur, segments).result, LAMBDA found :
                                  IF Truthy(found)
                                  THEN ScanLoop(e, found, Empty, Advance(next_dash))
                                  ELSE ScanLoop(e, cur, segments, Advance(next_dash))))
                     ELSE IF GreedyMatch(cur, segment)
                          THEN ScanLoop(e, cur \o <<"/">> \o segment, pending, Advance(next_dash))
                          ELSE ScanLoop(e, cur, Append(pending, segment), Advance(next_dash)))

\* def decode_path_progressive(encoded)
decode_path_progressive(enc) == ScanLoop(enc, Empty, Empty, 0)

\* decode_project_path(encoded_name) on an empty cache, nothing else running
decode_project_path(name) ==
    IF ~StartsWith(name, "-")
    THEN name
    ELSE decode_path_progressive(Slice(name, 1, Len(name)))

----------------------------------------------------------------------------
(* Lines of a .jsonl file.  A line is what json.loads makes of it: nothing *)
(* for a line of whitespace, a JSONDecodeError for a malformed line, a     *)
(* value that is no dict ("scalar": a number, a list, a string), or a dict *)
(* ("object") with the keys the program reads.  An absent key and an empty *)
(* string are both "".                                                     *)

NoTime == -1        \* Python's None where a datetime is expected

Absent == [kind |-> "absent", at |-> NoTime]      \* no "timestamp" key
BadTime == [kind |-> "bad", at |-> NoTime]        \* a string fromisoformat rejects
NumberTime == [kind |-> "number", at |-> NoTime]  \* a JSON number, not a string
Iso(t) == [kind |-> "iso", at |-> t]              \* an ISO timestamp, t seconds

NoContent == [kind |-> "absent", text |-> "", items |-> <<>>]
StrContent(text) == [kind |-> "str", text |-> text, items |-> <<>>]
ListContent(items) == [kind |-> "list", text |-> "", items |-> items]
NoDictMessage == [kind |-> "message_not_dict", text |-> "", items |-> <<>>]

Line(json, type, timestamp, uuid, content, leafUuid, text) ==
    [json |-> json, type |-> type, timestamp |-> timestamp, uuid |-> uuid,
     content |-> content, leafUuid |-> leafUuid, summary |-> text]

BlankLine == Line("blank", "", Absent, "", NoContent, "", "")
MalformedLine == Line("malformed", "", Absent, "", NoContent, "", "")
ScalarLine == Line("scalar", "", Absent, "", NoContent, "", "")
NoLine == Line("none", "", Absent, "", NoContent, "", "")     \* last_line = None

Object(type, timestamp, uuid, content) ==
    Line("object", type, timestamp, uuid, content, "", "")
SummaryObject(type, leafUuid, text) ==
    Line("object", type, Absent, "", NoContent, leafUuid, text)

----------------------------------------------------------------------------
(* parse_timestamp, extract_timestamp, extract_user_message.  A call that  *)
(* raises is told apart by the operator named ...Raises.                   *)

\* parse_timestamp: the datetime, or None for "" and for what fromisoformat rejects
parse_timestamp(timestamp) == IF timestamp.kind = "iso" THEN timestamp.at ELSE NoTime

\* a number has no .replace: AttributeError, which parse_timestamp does not catch
ParseTimestampRaises(timestamp) == timestamp.kind = "number"

\* extract_timestamp: data.get("timestamp"), parsed when truthy
extract_timestamp(data) ==
    IF data.timestamp.kind = "absent" THEN NoTime ELSE parse_timestamp(data.timestamp)

\* data.get on a value that is no dict: AttributeError
ExtractTimestampRaises(data) ==
    data.json = "scalar" \/ ParseTimestampRaises(data.timestamp)

\* the first item of type "text" with a non-empty text, "" when there is none
RECURSIVE FirstText(_)
FirstText(items) ==
    IF items = <<>> THEN ""
    ELSE IF items[1].type = "text" /\ items[1].text # "" THEN items[1].text
    ELSE FirstText(Tail(items))

\* extract_user_message
extract_user_message(data) ==
    IF data.type # "user" THEN ""
    ELSE IF data.content.kind = "str" THEN data.content.text
    ELSE IF data.content.kind = "list" THEN FirstText(data.content.items)
    ELSE ""

\* data.get on a value that is no dict, .get on a "message" that is no dict
ExtractUserMessageRaises(data) ==
    data.json = "scalar" \/ (data.type = "user" /\ data.content.kind = "message_not_dict")

----------------------------------------------------------------------------
(* parse_session_minimal. *)

MessageLines == 20      \* the user message is looked for in the first 20 lines

\* "if summary_index": an index was given and it is not empty
IndexGiven(index) == index.given /\ DOMAIN index.map # {}

\* the locals of the function before the loop
BeforeLoop ==
    [start_timestamp |-> NoTime, first_user_msg |-> "", last_line |-> NoLine,
     line_count |-> 0, matched_summaries |-> <<>>, assistant_uuids_checked |-> {},
     raised |-> FALSE]

\* Unchecked with the set of checked uuids ignored
UncheckedAlways(msg_uuid, checked) == msg_uuid # ""

\* msg_uuid and msg_uuid not in assistant_uuids_checked
Unchecked(msg_uuid, checked) == msg_uuid # "" /\ msg_uuid \notin checked

\* the body of the try block for a line json.loads made a value of
ReadData(locals, data, line_num, index) ==
    LET wants_ts == locals.start_timestamp = NoTime
        wants_msg == line_num <= MessageLines /\ locals.first_user_msg = ""
        wants_uuid == IndexGiven(index)
        raises == \/ wants_ts /\ ExtractTimestampRaises(data)
                  \/ wants_msg /\ ExtractUserMessageRaises(data)
                  \/ wants_uuid /\ data.json = "scalar"
        matches == /\ wants_uuid
                   /\ data.type = "assistant"
                   /\ Unchecked(data.uuid, locals.assistant_uuids_checked)
    IN  IF raises THEN [locals EXCEPT !.raised = TRUE]
        ELSE [locals EXCEPT
                 !.start_timestamp = IF wants_ts THEN extract_timestamp(data) ELSE @,
                 !.first_user_msg = IF wants_msg THEN extract_user_message(data) ELSE @,
                 !.assistant_uuids_checked = IF matches THEN @ \cup {data.uuid} ELSE @,
                 !.matched_summaries =
                     IF matches /\ data.uuid \in DOMAIN index.map
                     THEN Append(@, index.map[data.uuid]) ELSE @]

\* ReadLine that lets a malformed line end the parse
ReadLineStrict(locals, line, line_num, index) ==
    IF line.json = "malformed" THEN [locals EXCEPT !.raised = TRUE]
    ELSE IF line.json = "blank" THEN [locals EXCEPT !.line_count = line_num]
    ELSE ReadData([locals EXCEPT !.line_count = line_num, !.last_line = line],
                  line, line_num, index)

\* one iteration of "for line_num, line in enumerate(f, 1)"
ReadLine(locals, line, line_num, index) ==
    LET counted == [locals EXCEPT !.line_count = line_num]
        kept == [counted EXCEPT !.last_line = line]
    IN  IF line.json = "blank" THEN counted
        ELSE IF line.json = "malformed" THEN kept
        ELSE ReadData(kept, line, line_num, index)

\* the loop from line line_num on; an exception ends it
RECURSIVE ReadLines(_, _, _, _)
ReadLines(locals, lines, line_num, index) ==
    IF line_num > Len(lines) \/ locals.raised THEN locals
    ELSE ReadLines(ReadLine(locals, lines[line_num], line_num, index),
                   lines, line_num + 1, index)

\* the function returned None
NoSummary ==
    [is_none |-> TRUE, start_timestamp |-> NoTime, last_timestamp |-> NoTime,
     first_user_message |-> "", line_count |-> 0, matched_summaries |-> None]

\* "Parse last line for timestamp": the value of last_timestamp
LastTimestamp(locals) ==
    IF locals.last_line.json \in {"none", "malformed"} THEN locals.start_timestamp
    ELSE IF extract_timestamp(locals.last_line) # NoTime
         THEN extract_timestamp(locals.last_line)
         ELSE locals.start_timestamp

parse_session_minimal(file, index) ==
    IF ~file.exists THEN NoSummary
    ELSE LET locals == ReadLines(BeforeLoop, file.lines, 1, index)
         IN  IF locals.raised \/ locals.start_timestamp = NoTime THEN NoSummary
             ELSE IF locals.last_line.json # "malformed"
                         /\ ExtractTimestampRaises(locals.last_line)
                  THEN NoSummary
             ELSE [is_none |-> FALSE,
                   start_timestamp |-> locals.start_timestamp,
                   last_timestamp |-> LastTimestamp(locals),
                   first_user_message |->
                       IF locals.first_user_msg # "" THEN locals.first_user_msg
                       ELSE "no user message",
                   line_count |-> locals.line_count,
                   matched_summaries |->
                       IF locals.matched_summaries # <<>> THEN locals.matched_summaries
                       ELSE None]

\* a process that never calls the decoder
DecoderUnused ==
    /\ fs = {}
    /\ cwd = Root
    /\ _path_cache = Empty
    /\ pc = [p \in Procs |-> "idle"]
    /\ encoded_name = [p \in Procs |-> Empty]
    /\ encoded = [p \in Procs |-> Empty]
    /\ current_path = [p \in Procs |-> Empty]
    /\ unmatched_segments = [p \in Procs |-> Empty]
    /\ i = [p \in Procs |-> 0]
    /\ iterations = [p \in Procs |-> 0]
    /\ result = [p \in Procs |-> None]
    /\ probes = [p \in Procs |-> Empty]
    /\ branch = [p \in Procs |-> "none"]
    /\ returned = Empty
    /\ arguments = {}

\* the lines a session file is made of
SessionLines ==
    { BlankLine, MalformedLine, ScalarLine,
      Object("user", Iso(1), "", StrContent("m1")),
      Object("user", Absent, "",
             ListContent(<< [type |-> "tool_result", text |-> "r"],
                            [type |-> "text", text |-> "m2"] >>)),
      Object("assistant", Iso(2), "u1", NoContent),
      Object("assistant", Iso(3), "u2", NoContent),
      Object("assistant", Absent, "u3", NoContent),
      Object("summary", BadTime, "", NoContent),
      Object("user", NumberTime, "", NoDictMessage) }

RECURSIVE SequencesUpTo(_, _)
SequencesUpTo(S, n) ==
    IF n = 0 THEN {<<>>}
    ELSE LET shorter == SequencesUpTo(S, n - 1)
         IN  shorter \cup {Append(q, x) : q \in {r \in shorter : Len(r) = n - 1}, x \in S}

Repeat(line, n) == [k \in 1..n |-> line]

\* nothing, or lines that fill the file up to the line before line 20
Paddings ==
    {<<>>, Repeat(BlankLine, MessageLines - 1), Repeat(MalformedLine, MessageLines - 1)}

MissingFile == [exists |-> FALSE, lines |-> <<>>]

SessionFiles ==
    {MissingFile} \cup
    {[exists |-> TRUE, lines |-> padding \o body] :
        padding \in Paddings, body \in SequencesUpTo(SessionLines, MaxLines)}

\* no index, the empty index, and indexes of one and two summaries
SummaryIndexes ==
    { [given |-> FALSE, map |-> <<>>],
      [given |-> TRUE, map |-> <<>>],
      [given |-> TRUE, map |-> ("u1" :> "s1")],
      [given |-> TRUE, map |-> ("u1" :> "s1") @@ ("u2" :> "s2")] }

InitSession ==
    /\ DecoderUnused
    /\ session_file \in SessionFiles
    /\ summary_index \in SummaryIndexes
    /\ summary = Unset
    /\ project_dir = Unset
    /\ built_index = Unset
    /\ seconds = 0
    /\ formatted = Unset
    /\ called = ""

\* summary = parse_session_minimal(session_file, summary_index)
ParseSession ==
    /\ called = ""
    /\ summary' = parse_session_minimal(session_file, summary_index)
    /\ called' = "parse_session_minimal"
    /\ UNCHANGED decoderVars
    /\ UNCHANGED <<session_file, summary_index, project_dir, built_index,
                   seconds, formatted>>

NextSession == ParseSession

SpecSession == InitSession /\ [][NextSession]_vars

----------------------------------------------------------------------------
(* The claims.  A call has returned when its caller is at "done"; result,  *)
(* probes and branch then describe that call.                              *)

Done(p) == pc[p] = "done"

\* the convention's forward mapping: "/", "." and "_" become "-"
Encode(path) ==
    [k \in 1..Len(path) |-> IF path[k] \in {"/", ".", "_"} THEN "-" ELSE path[k]]

Ambiguous == {".", "_", "-"}

\* no two different ambiguous characters are adjacent in a component
Resolvable(path) ==
    \A k \in 1..(Len(path) - 1) :
        ~(path[k] \in Ambiguous /\ path[k + 1] \in Ambiguous /\ path[k] # path[k + 1])

HasDoubleSeparator(path) ==
    \E k \in 1..(Len(path) - 1) : path[k] = "/" /\ path[k + 1] = "/"

Range(seq) == {seq[k] : k \in 1..Len(seq)}

\* C1: round trip.  For every existing directory P without adjacent different
\* ambiguous characters, decoding Encode(P) returns exactly P, whatever else
\* exists beside P.
C1_RoundTrip ==
    \A p \in Procs : \A P \in fs :
        (Done(p) /\ Resolvable(P) /\ encoded_name[p] = Encode(P)) => result[p] = P

\* the name begins with the delimiter
LeadsWithDelimiter(name) == name # Empty /\ Head(name) = "-"

\* C2: no double separators.  Whatever the name and the filesystem, the
\* returned path never holds two consecutive "/".
C2_NoDoubleSeparators ==
    \A p \in Procs : Done(p) => ~HasDoubleSeparator(result[p])

\* "-a--a" decoded to "/a/.a": the two delimiters did not become "//"
C2_Witness ==
    \E p \in Procs :
        /\ Done(p)
        /\ encoded_name[p] = <<"-", "a", "-", "-", "a">>
        /\ branch[p] = "resolved"
        /\ result[p] = <<"/", "a", "/", ".", "a">>

\* C3: idempotence under caching.  With the filesystem unchanged, a name that
\* was decoded before is never scanned again, every call for it returns the
\* one value returned before, and the call served from the cache probes nothing.
C3_IdempotentFromCache ==
    \A p \in Procs :
        /\ pc[p] \in {"scan", "store"} => encoded_name[p] \notin DOMAIN returned
        /\ Done(p) => returned[encoded_name[p]] = {result[p]}
        /\ (Done(p) /\ branch[p] = "cached") => probes[p] = Empty

\* the second call for "-a--a", served from the cache
C3_Witness ==
    \E p \in Procs :
        /\ Done(p)
        /\ branch[p] = "cached"
        /\ encoded_name[p] = <<"-", "a", "-", "-", "a">>
        /\ result[p] = <<"/", "a", "/", ".", "a">>

----------------------------------------------------------------------------
(* The order of the readings of an unmatched run, written out from the     *)
(* claims' words rather than from the resolver's loops.                    *)

DashFirst == <<"-", ".", "_">>
DotFirst == <<".", "_", "-">>

\* every joining of the segments, the leftmost position varying slowest; the
\* first position takes its characters in the order `first`, the others in
\* the order delimiter, dot, underscore
RECURSIVE Readings(_, _)
Readings(segments, first) ==
    IF Len(segments) <= 1 THEN segments
    ELSE LET joined(c) ==
                 Readings(<<segments[1] \o <<c>> \o segments[2]>>
                              \o SubSeq(segments, 3, Len(segments)), DashFirst)
         IN  joined(first[1]) \o joined(first[2]) \o joined(first[3])

\* a run that is the marker alone reads as the bare character
Padded(run) == IF run = <<Empty>> THEN <<Empty, Empty>> ELSE run

\* the first reading whose probe under the prefix succeeds, or None
FirstExisting(base, readings) ==
    LET hits == {k \in 1..Len(readings) : OsPathExists(OsPathJoin(base, readings[k]))}
    IN  IF hits = {} THEN None
        ELSE OsPathJoin(base, readings[CHOOSE k \in hits : \A m \in hits : k <= m])

\* the segment the scan reads next, and the run the resolver is then handed
SegmentAhead(p) ==
    LET nd == Find(encoded[p], "-", i[p])
    IN  Slice(encoded[p], i[p], IF nd = -1 THEN Len(encoded[p]) ELSE nd)

RunAhead(p) ==
    unmatched_segments[p] \o (IF SegmentAhead(p) = Empty THEN <<>> ELSE <<SegmentAhead(p)>>)

\* the scan step about to be taken hands a run to the resolver
ResolverCalled(p) ==
    pc[p] = "scan" /\ i[p] < Len(encoded[p]) /\ unmatched_segments[p] # Empty

\* that scan step is taken by caller p
ResolverStep(p) == ResolverCalled(p) /\ (pc'[p] # pc[p] \/ i'[p] # i[p])

\* a step that calls the resolver adopts `choice`, or nothing when it is None
Adopts(p, choice) ==
    IF choice = None
    THEN current_path'[p] = current_path[p] /\ branch'[p] # "resolved"
    ELSE IF pc'[p] = "store"
         THEN branch'[p] = "resolved" /\ result'[p] = choice
         ELSE current_path'[p] = choice

\* C4 as claimed: among the existing readings of the unmatched run the decoder
\* takes the first in the order delimiter, dot, underscore at each position of
\* the run, the leftmost position varying slowest.
C4_DashFirstAtEveryPosition ==
    [][\A p \in Procs :
          ResolverStep(p)
              => Adopts(p, FirstExisting(current_path[p],
                                         Readings(Padded(RunAhead(p)), DashFirst)))]_vars

\* C4 as amended: the same order, except that the position after a leading
\* empty-segment marker takes dot, underscore, delimiter.
C4_FirstInPriorityOrder ==
    [][\A p \in Procs :
          ResolverStep(p)
              => Adopts(p, FirstExisting(current_path[p],
                                         Readings(Padded(RunAhead(p)),
                                                  IF RunAhead(p)[1] = Empty
                                                  THEN DotFirst ELSE DashFirst)))]_vars

\* "/a/a-a" and "/a/a.a" both exist and "-a-a-a" decodes to the first
C4_Witness ==
    \E p \in Procs :
        /\ Done(p)
        /\ branch[p] = "resolved"
        /\ encoded_name[p] = <<"-", "a", "-", "a", "-", "a">>
        /\ {<<"/", "a", "/", "a", "-", "a">>, <<"/", "a", "/", "a", ".", "a">>} \subseteq fs
        /\ result[p] = <<"/", "a", "/", "a", "-", "a">>

\* the readings of a marker-led run that begin with a dot
DotReadings(run) ==
    Readings(<<<<".">> \o run[2]>> \o SubSeq(run, 3, Len(run)), DashFirst)

\* the directory `name` exists in the directory `prefix` ("" is the root)
ExistsUnder(prefix, name) == Normalize(prefix \o <<"/">> \o name) \in fs

\* the directory a returned path names, relative paths taken from cwd
Resolve(path) ==
    Normalize(IF StartsWith(path, "/") THEN path ELSE cwd \o <<"/">> \o path)

\* C5: hidden-entry priority.  When the run the decode ends on begins with the
\* empty-segment marker and a dot-prefixed reading of it exists under the
\* confirmed prefix, the call returns a path that names such a dot-prefixed
\* entry.
C5_HiddenEntryFirst ==
    \A p \in Procs :
        (Done(p) /\ branch[p] \in {"resolved", "fallback"}
                 /\ Head(unmatched_segments[p]) = Empty)
            => LET dots == DotReadings(unmatched_segments[p])
                   there == {k \in 1..Len(dots) : ExistsUnder(current_path[p], dots[k])}
               IN  there # {} =>
                       /\ result[p] # Empty
                       /\ \E k \in there :
                              Resolve(result[p])
                                  = Normalize(current_path[p] \o <<"/">> \o dots[k])

\* C6: decode_project_path is total.  Every call, for every name and
\* filesystem, hands back a string: never None, never an error value.
C6_AlwaysReturnsString ==
    \A p \in Procs : pc[p] \in {"store", "done"} => IsStr(result[p])

\* the name made of delimiters only, decoded where nothing exists
C6_Witness ==
    \E p \in Procs :
        /\ Done(p)
        /\ fs = {}
        /\ encoded_name[p] = <<"-", "-", "-">>
        /\ IsStr(result[p])

\* C7: malformed input.  A name that does not begin with the delimiter is
\* returned unchanged, without a probe, and is cached under itself.
C7_RelativeNameUnchanged ==
    \A p \in Procs :
        (Done(p) /\ ~LeadsWithDelimiter(encoded_name[p]))
            => /\ result[p] = encoded_name[p]
               /\ probes[p] = Empty
               /\ encoded_name[p] \in DOMAIN _path_cache
               /\ _path_cache[encoded_name[p]] = encoded_name[p]

\* "a-a" handed back as it came
C7_Witness ==
    \E p \in Procs :
        /\ Done(p)
        /\ branch[p] = "relative"
        /\ encoded_name[p] = <<"a", "-", "a">>
        /\ result[p] = <<"a", "-", "a">>

\* C8: literal fallback.  For a delimiter-led name none of whose probes found
\* anything, the call returns "/" followed by the name without its leading
\* delimiter.
C8_LiteralFallback ==
    \A p \in Procs :
        (Done(p) /\ LeadsWithDelimiter(encoded_name[p])
                 /\ \A k \in 1..Len(probes[p]) : ~OsPathExists(probes[p][k]))
            => result[p] = <<"/">> \o Tail(encoded_name[p])

\* the path was asked about in this call and exists
Confirmed(p, path) == path \in Range(probes[p]) /\ OsPathExists(path)

\* C9 as claimed: a decode that ends without the literal fallback returns a
\* path that exists.
C9_ExistenceBacked ==
    \A p \in Procs :
        (Done(p) /\ (\/ branch[p] \in {"appended", "resolved"}
                     \/ branch[p] = "exhausted" /\ unmatched_segments[p] = Empty))
            => OsPathExists(result[p])

\* C9 as amended: a decode that ends on a resolver match or by returning
\* current_path at the end of the scan returns the empty prefix or a path one
\* of its probes found; a last segment read with nothing pending is appended
\* unprobed, and then the prefix before it is empty or was found by a probe.
C9_ProbedUnlessAppended ==
    \A p \in Procs :
        /\ (Done(p) /\ branch[p] \in {"resolved", "exhausted"})
               => (result[p] = Empty \/ Confirmed(p, result[p]))
        /\ (Done(p) /\ branch[p] = "appended")
               => (current_path[p] = Empty \/ Confirmed(p, current_path[p]))

\* "-a-aa" with /a existing and /a/aa not: "/a" was probed, "/a/aa" is
\* returned unprobed
C9_Witness ==
    \E p \in Procs :
        /\ Done(p)
        /\ branch[p] = "appended"
        /\ encoded_name[p] = <<"-", "a", "-", "a", "a">>
        /\ Confirmed(p, current_path[p])
        /\ ~OsPathExists(result[p])

\* C10: absolute result.  For a delimiter-led name the returned path begins
\* with "/".
C10_AbsoluteResult ==
    \A p \in Procs :
        (Done(p) /\ LeadsWithDelimiter(encoded_name[p]))
            => (result[p] # Empty /\ Head(result[p]) = "/")

----------------------------------------------------------------------------
(* The end of the scan and the content of the unmatched run. *)

\* C18: end of string.  A decode of a delimiter-led name never leaves through
\* "return current_path" with segments still pending: a pending run gets a
\* final resolver call, and without a match the result is the prefix, "/"
\* and the pending segments joined by the delimiter.
C18_PendingRunNeverDropped ==
    \A p \in Procs :
        (Done(p) /\ LeadsWithDelimiter(encoded_name[p]))
            => /\ branch[p] = "exhausted" => unmatched_segments[p] = Empty
               /\ branch[p] = "fallback"
                      => result[p] = current_path[p] \o <<"/">>
                                         \o Join(<<"-">>, unmatched_segments[p])

\* C19: content of the unmatched run.  A scan step taken while the run is
\* non-empty and that confirms nothing leaves the run extended by the segment
\* just read, the empty segment between two delimiters included.
C19_EverySegmentAppended ==
    [][\A p \in Procs :
          (ResolverStep(p) /\ current_path'[p] = current_path[p]
                           /\ branch'[p] # "resolved")
              => unmatched_segments'[p]
                     = Append(unmatched_segments[p], SegmentAhead(p))]_vars

\* the candidates of a run under a prefix, in the claimed order
CandidatePaths(base, run) ==
    LET readings == Readings(run, DashFirst)
    IN  [k \in 1..Len(readings) |-> OsPathJoin(base, readings[k])]

\* the index of the first candidate that exists, 0 when none does
FirstHit(candidates) ==
    LET hits == {k \in 1..Len(candidates) : OsPathExists(candidates[k])}
    IN  IF hits = {} THEN 0 ELSE CHOOSE k \in hits : \A m \in hits : k <= m

\* the candidates up to and including the first that exists, all when none does
ProbedUntilHit(candidates) ==
    IF FirstHit(candidates) = 0 THEN candidates
    ELSE SubSeq(candidates, 1, FirstHit(candidates))

\* C20: resolver enumeration.  Handed a run whose first segment is not empty,
\* the resolver probes the joinings of the segments by "-", ".", "_" in
\* lexicographic order, the leftmost position varying slowest, stops at the
\* first that exists and returns it; it returns None exactly when none
\* exists; a run of one segment is probed as that segment alone.
C20_ProbesInLexicographicOrder ==
    [][\A p \in Procs :
          (ResolverStep(p) /\ Head(RunAhead(p)) # Empty)
              => LET candidates == CandidatePaths(current_path[p], RunAhead(p))
                 IN  /\ probes'[p] = probes[p] \o ProbedUntilHit(candidates)
                     /\ Adopts(p, IF FirstHit(candidates) = 0 THEN None
                                  ELSE candidates[FirstHit(candidates)])]_vars

\* "-a-a-a" in the root with a-a.a and a.a-a existing: two segments probed
\* three ways without a hit, then three segments up to the second candidate
C20_Witness ==
    \E p \in Procs :
        /\ Done(p)
        /\ branch[p] = "resolved"
        /\ encoded_name[p] = <<"-", "a", "-", "a", "-", "a">>
        /\ cwd = Root
        /\ fs = {<<"/", "a", "-", "a", ".", "a">>, <<"/", "a", ".", "a", "-", "a">>}
        /\ probes[p] = << <<"/", "a">>,
                          <<"a", "-", "a">>, <<"a", ".", "a">>, <<"a", "_", "a">>,
                          <<"a", "-", "a", "-", "a">>, <<"a", "-", "a", ".", "a">> >>
        /\ result[p] = <<"a", "-", "a", ".", "a">>

----------------------------------------------------------------------------
(* The cache as a store that only grows. *)

\* caller p takes a decoder step
DecoderStep(p) == pc'[p] # pc[p] \/ i'[p] # i[p]

\* caller p calls decode_project_path with name
CallsWith(p, name) == pc[p] = "idle" /\ pc'[p] # "idle" /\ encoded_name'[p] = name

\* C11: cache entries are stable.  Once the cache holds a value for a name,
\* no step of any call and no change of the filesystem alters or removes the
\* entry, and every later call for that name returns the stored value at
\* once, whether or not the path still exists.
C11_CacheEntriesStable ==
    [][\A name \in DOMAIN _path_cache :
          /\ name \in DOMAIN _path_cache'
          /\ _path_cache'[name] = _path_cache[name]
          /\ \A p \in Procs :
                 CallsWith(p, name)
                     => pc'[p] = "done" /\ result'[p] = _path_cache[name]]_vars

\* "--a" was decoded to ".a" while /.a existed, /.a was removed, and the
\* next call still returns ".a"
C11_Witness ==
    \E p \in Procs :
        /\ Done(p)
        /\ branch[p] = "cached"
        /\ encoded_name[p] = <<"-", "-", "a">>
        /\ result[p] = <<".", "a">>
        /\ <<"/", ".", "a">> \notin fs
        /\ ~OsPathExists(result[p])

\* C12: cache postcondition and frame.  A call that returns p for name
\* leaves _path_cache[name] = p; a decoder step adds no key but the name of
\* its call, changes no entry of another name and leaves the filesystem as
\* it is.
C12_CachePostconditionAndFrame ==
    [][\A p \in Procs :
          DecoderStep(p)
              => /\ (pc'[p] = "done")
                     => /\ encoded_name'[p] \in DOMAIN _path_cache'
                        /\ _path_cache'[encoded_name'[p]] = result'[p]
                 /\ DOMAIN _path_cache' \subseteq DOMAIN _path_cache \cup {encoded_name'[p]}
                 /\ \A name \in DOMAIN _path_cache :
                        name # encoded_name'[p]
                            => /\ name \in DOMAIN _path_cache'
                               /\ _path_cache'[name] = _path_cache[name]
                 /\ fs' = fs]_vars

\* "-a-a" returned "/a/a" with the cache already holding two other names
C12_Witness ==
    \E p \in Procs :
        /\ Done(p)
        /\ branch[p] = "appended"
        /\ encoded_name[p] = <<"-", "a", "-", "a">>
        /\ _path_cache[encoded_name[p]] = result[p]
        /\ DOMAIN _path_cache
               = {<<"a">>, <<"-", "-", "a">>, <<"-", "a", "-", "a">>}

----------------------------------------------------------------------------
(* parse_session_minimal: when it returns a summary, and what malformed    *)
(* lines do to it.                                                         *)

Parsed == called = "parse_session_minimal"

\* the line is JSON that carries a parseable timestamp
CarriesTimestamp(line) == line.json = "object" /\ line.timestamp.kind = "iso"

\* C13: parse_session_minimal returns a summary exactly when the file exists
\* and some line is JSON with a parseable timestamp; no other line content
\* turns such a file into None.
C13_SummaryIffTimestamp ==
    Parsed =>
        (~summary.is_none
            <=> /\ session_file.exists
                /\ \E k \in 1..Len(session_file.lines) :
                       CarriesTimestamp(session_file.lines[k]))

\* the file without its malformed lines
WithoutMalformed(file) ==
    [file EXCEPT !.lines = SelectSeq(@, LAMBDA line : line.json # "malformed")]

\* C14 as claimed: a malformed line counts in line_count, and the timestamps,
\* the first user message and the matched summaries are those of the file
\* with the malformed lines removed, wherever they stand.
C14_MalformedLinesRemoved ==
    (Parsed /\ ~summary.is_none)
        => LET clean == parse_session_minimal(WithoutMalformed(session_file),
                                              summary_index)
           IN  /\ summary.line_count = Len(session_file.lines)
               /\ ~clean.is_none
               /\ summary.start_timestamp = clean.start_timestamp
               /\ summary.last_timestamp = clean.last_timestamp
               /\ summary.first_user_message = clean.first_user_message
               /\ summary.matched_summaries = clean.matched_summaries

\* the position of the last line that is not blank, 0 when there is none
LastNonBlank(lines) ==
    LET filled == {k \in 1..Len(lines) : lines[k].json # "blank"}
    IN  IF filled = {} THEN 0 ELSE CHOOSE k \in filled : \A m \in filled : m <= k

\* the file with each malformed line made an empty line, except a malformed
\* line that is the last non-empty line
MalformedBlanked(file) ==
    [file EXCEPT !.lines =
        [k \in 1..Len(@) |->
            IF @[k].json = "malformed" /\ k # LastNonBlank(@) THEN BlankLine ELSE @[k]]]

EndsMalformed(lines) ==
    LastNonBlank(lines) # 0 /\ lines[LastNonBlank(lines)].json = "malformed"

\* C14 as amended: a malformed line counts in line_count and otherwise acts
\* as an empty line in its place, so the result is that of the file with the
\* malformed lines blanked; only a malformed line that is the last non-empty
\* line matters, and it makes last_timestamp equal start_timestamp.
C14_MalformedLinesBlanked ==
    (Parsed /\ session_file.exists)
        => /\ summary = parse_session_minimal(MalformedBlanked(session_file),
                                              summary_index)
           /\ ~summary.is_none
                  => /\ summary.line_count = Len(session_file.lines)
                     /\ EndsMalformed(session_file.lines)
                            => summary.last_timestamp = summary.start_timestamp

\* 19 malformed lines, then the assistant line of second 2, the user line of
\* second 1 with "m1" on line 21, and a malformed last line
C14_Witness ==
    /\ Parsed
    /\ session_file.lines
           = Repeat(MalformedLine, MessageLines - 1)
                 \o << Object("assistant", Iso(2), "u1", NoContent),
                       Object("user", Iso(1), "", StrContent("m1")),
                       MalformedLine >>
    /\ ~summary.is_none
    /\ summary.line_count = MessageLines + 2
    /\ summary.start_timestamp = 2
    /\ summary.last_timestamp = 2
    /\ summary.first_user_message = "no user message"

\* the uuids of the assistant lines, in file order
RECURSIVE AssistantUuids(_)
AssistantUuids(lines) ==
    IF lines = <<>> THEN <<>>
    ELSE (IF lines[1].json = "object" /\ lines[1].type = "assistant" /\ lines[1].uuid # ""
          THEN <<lines[1].uuid>> ELSE <<>>) \o AssistantUuids(Tail(lines))

\* each element once, at its first appearance
RECURSIVE FirstAppearances(_, _)
FirstAppearances(seq, seen) ==
    IF seq = <<>> THEN <<>>
    ELSE IF seq[1] \in seen THEN FirstAppearances(Tail(seq), seen)
    ELSE <<seq[1]>> \o FirstAppearances(Tail(seq), seen \cup {seq[1]})

\* the index entries of the distinct assistant uuids that are keys of the index
MatchesOf(lines, map) ==
    LET keys == SelectSeq(FirstAppearances(AssistantUuids(lines), {}),
                          LAMBDA uuid : uuid \in DOMAIN map)
    IN  [k \in 1..Len(keys) |-> map[keys[k]]]

\* C16: matched_summaries lists, in order of first appearance, the index
\* entry of each distinct assistant uuid that is a key of the index, each
\* once; it is None when no index is given, the index is empty or nothing
\* matches.
C16_MatchedSummariesInOrder ==
    (Parsed /\ ~summary.is_none)
        => summary.matched_summaries
               = IF ~summary_index.given
                      \/ MatchesOf(session_file.lines, summary_index.map) = <<>>
                 THEN None
                 ELSE MatchesOf(session_file.lines, summary_index.map)

\* u2, u1, u2 again: "s2" then "s1", each once
C16_Witness ==
    /\ Parsed
    /\ session_file.lines
           = << Object("assistant", Iso(3), "u2", NoContent),
                Object("assistant", Iso(2), "u1", NoContent),
                Object("assistant", Iso(3), "u2", NoContent) >>
    /\ DOMAIN summary_index.map = {"u1", "u2"}
    /\ summary.matched_summaries = <<"s2", "s1">>

----------------------------------------------------------------------------
(* build_summary_index.  A directory is the sequence of its files in the   *)
(* order glob yields them; a file has a suffix, may be unreadable, has a   *)
(* size in bytes and its lines.  The dict is filled in place, so what was  *)
(* stored before an error is still returned.                               *)

\* the size above which a file is taken for a conversation file
SizeLimit == 10000

MaxFiles == 2
MaxIndexLines == 2

\* one line of a file: json.loads of a blank line raises JSONDecodeError as
\* a malformed line does; only an object of type "summary" with leafUuid and
\* summary text is stored, a later one over an earlier one
IndexLine(locals, line) ==
    IF locals.raised THEN locals
    ELSE IF line.json \in {"blank", "malformed"} THEN locals
    ELSE IF line.json = "scalar" THEN [locals EXCEPT !.raised = TRUE]
    ELSE IF line.type = "summary" /\ line.leafUuid # "" /\ line.summary # ""
         THEN [locals EXCEPT !.summary_index = (line.leafUuid :> line.summary) @@ @]
    ELSE locals

RECURSIVE IndexLines(_, _)
IndexLines(locals, lines) ==
    IF lines = <<>> THEN locals
    ELSE IndexLines(IndexLine(locals, lines[1]), Tail(lines))

\* one file of the directory: glob passes only *.jsonl, a file above the
\* limit is skipped, a file that cannot be opened is skipped
IndexFile(locals, file) ==
    IF locals.raised \/ ~file.jsonl THEN locals
    ELSE IF file.st_size > SizeLimit THEN locals
    ELSE IF ~file.readable THEN locals
    ELSE IndexLines(locals, file.lines)

RECURSIVE IndexFilesFrom(_, _)
IndexFilesFrom(locals, files) ==
    IF files = <<>> THEN locals
    ELSE IndexFilesFrom(IndexFile(locals, files[1]), Tail(files))

\* the dict returned for a directory; a missing directory has no files
build_summary_index(dir) ==
    IndexFilesFrom([summary_index |-> <<>>, raised |-> FALSE],
                   IF dir.exists THEN dir.files ELSE <<>>).summary_index

\* the lines a file of the directory is made of
IndexFileLines ==
    { MalformedLine, ScalarLine,
      SummaryObject("summary", "u1", "s1"),
      SummaryObject("summary", "u2", "s2"),
      SummaryObject("summary", "u1", "s3"),
      SummaryObject("summary", "u2", ""),
      SummaryObject("other", "u3", "s4") }

\* an empty file has size 0; a file with lines is below, at or above the limit
SizesOf(lines) == IF lines = <<>> THEN {0} ELSE {SizeLimit - 1, SizeLimit, SizeLimit + 1}

\* the sequences over S of length n
RECURSIVE SequencesOf(_, _)
SequencesOf(S, n) ==
    IF n = 0 THEN {<<>>}
    ELSE {Append(q, x) : q \in SequencesOf(S, n - 1), x \in S}

\* the *.jsonl files of n lines and, with one line, a file that cannot be
\* opened and a file of another suffix
FilesOf(n) ==
    UNION {{[jsonl |-> TRUE, readable |-> TRUE, st_size |-> size, lines |-> lines] :
               size \in SizesOf(lines)} : lines \in SequencesOf(IndexFileLines, n)}
    \cup (IF n # 1 THEN {}
          ELSE { [jsonl |-> TRUE, readable |-> FALSE, st_size |-> SizeLimit - 1,
                  lines |-> <<SummaryObject("summary", "u1", "s1")>>],
                 [jsonl |-> FALSE, readable |-> TRUE, st_size |-> SizeLimit - 1,
                  lines |-> <<SummaryObject("summary", "u1", "s1")>>] })

\* the sequences of at most n files that have at most budget lines together
RECURSIVE FileSequences(_, _)
FileSequences(n, budget) ==
    IF n = 0 THEN {<<>>}
    ELSE {<<>>} \cup
         UNION {{<<file>> \o rest : file \in FilesOf(k),
                                    rest \in FileSequences(n - 1, budget - k)} :
                   k \in 0..budget}

MissingDirectory == [exists |-> FALSE, files |-> <<>>]

Directories(n, budget) ==
    {MissingDirectory} \cup
    {[exists |-> TRUE, files |-> files] : files \in FileSequences(n, budget)}

InitIndex ==
    /\ DecoderUnused
    /\ session_file = Unset
    /\ summary_index = Unset
    /\ summary = Unset
    /\ project_dir \in Directories(MaxFiles, MaxIndexLines)
    /\ built_index = Unset
    /\ seconds = 0
    /\ formatted = Unset
    /\ called = ""

\* built_index = build_summary_index(project_dir)
BuildIndex ==
    /\ called = ""
    /\ built_index' = build_summary_index(project_dir)
    /\ called' = "build_summary_index"
    /\ UNCHANGED decoderVars
    /\ UNCHANGED <<session_file, summary_index, summary, project_dir,
                   seconds, formatted>>

NextIndex == BuildIndex

SpecIndex == InitIndex /\ [][NextIndex]_vars

Indexed == called = "build_summary_index"

\* the lines of the *.jsonl files of at most SizeLimit bytes that can be read
IndexableLines(dir) ==
    {file.lines[k] : <<file, k>> \in
        UNION {{<<f, n>> : n \in 1..Len(f.lines)} :
                  f \in {dir.files[j] : j \in {m \in 1..Len(dir.files) :
                            /\ dir.files[m].jsonl
                            /\ dir.files[m].readable
                            /\ dir.files[m].st_size <= SizeLimit}}}}

\* the lines of type "summary" with leafUuid and summary text
SummaryLines(lines) ==
    {line \in lines : /\ line.json = "object"
                      /\ line.type = "summary"
                      /\ line.leafUuid # ""
                      /\ line.summary # ""}

\* C15: build_summary_index returns the map built from every summary line
\* with leafUuid and text in every *.jsonl file of at most 10000 bytes: its
\* keys are the leafUuids of those lines and each value is the text of such
\* a line; no unusable line keeps another line or file out of the index.
C15_EverySummaryLineIndexed ==
    Indexed =>
        LET lines == SummaryLines(IndexableLines(project_dir))
        IN  /\ DOMAIN built_index = {line.leafUuid : line \in lines}
            /\ \A leaf \in DOMAIN built_index :
                   \E line \in lines : /\ line.leafUuid = leaf
                                       /\ line.summary = built_index[leaf]

----------------------------------------------------------------------------
(* format_duration.  An f-string renders an integer in decimal digits.     *)

MaxDays == 2

Digits == <<"0", "1", "2", "3", "4", "5", "6", "7", "8", "9">>

\* f"{n}" for an integer n >= 0
RECURSIVE Decimal(_)
Decimal(n) ==
    IF n < 10 THEN Digits[n + 1]
    ELSE Decimal(n \div 10) \o Digits[(n % 10) + 1]

\* minutes = (seconds % 3600) // 60, with every minute of the duration instead
MinutesWhole(s) == s \div 60

\* minutes = (seconds % 3600) // 60
MinutesPart(s) == (s % 3600) \div 60

\* hours = (seconds % 86400) // 3600
HoursPart(s) == (s % 86400) \div 3600

format_duration(s) ==
    IF s < 60 THEN Decimal(s) \o "s"
    ELSE IF s < 3600 THEN Decimal(s \div 60) \o "m"
    ELSE IF s < 86400
         THEN LET hours == s \div 3600
                  minutes == MinutesPart(s)
              IN  IF minutes > 0
                  THEN Decimal(hours) \o "h " \o Decimal(minutes) \o "m"
                  ELSE Decimal(hours) \o "h"
    ELSE LET days == s \div 86400
             hours == HoursPart(s)
         IN  IF hours > 0
             THEN Decimal(days) \o "d " \o Decimal(hours) \o "h"
             ELSE Decimal(days) \o "d"

\* every duration up to the last second of day MaxDays
Durations == 0..((MaxDays + 1) * 86400 - 1)

InitDuration ==
    /\ DecoderUnused
    /\ session_file = Unset
    /\ summary_index = Unset
    /\ summary = Unset
    /\ project_dir = Unset
    /\ built_index = Unset
    /\ seconds \in Durations
    /\ formatted = Unset
    /\ called = ""

\* formatted = format_duration(seconds)
FormatDuration ==
    /\ called = ""
    /\ formatted' = format_duration(seconds)
    /\ called' = "format_duration"
    /\ UNCHANGED decoderVars
    /\ UNCHANGED <<session_file, summary_index, summary, project_dir,
                   built_index, seconds>>

NextDuration == FormatDuration

SpecDuration == InitDuration /\ [][NextDuration]_vars

Formatted == called = "format_duration"

\* the units of a duration, each counted within the next larger one
UnitDays(s) == s \div 86400
UnitHours(s) == (s \div 3600) % 24
UnitMinutes(s) == (s \div 60) % 60

\* a first unit, and a second one unless it is zero
TwoUnits(first, firstUnit, second, secondUnit) ==
    IF second = 0 THEN Decimal(first) \o firstUnit
    ELSE Decimal(first) \o firstUnit \o " " \o Decimal(second) \o secondUnit

\* C17: format_duration(s) shows at most the two largest units and drops a
\* zero second unit: '<s>s' below a minute, '<s div 60>m' below an hour,
\* '<h>h <m>m' or '<h>h' below a day, '<d>d <h>h' or '<d>d' from a day on;
\* 30 -> '30s', 90 -> '1m', 3660 -> '1h 1m', 86400 -> '1d', 90000 -> '1d 1h'.
C17_TwoLargestUnits ==
    Formatted =>
        /\ seconds < 60 => formatted = Decimal(seconds) \o "s"
        /\ (60 <= seconds /\ seconds < 3600) => formatted = Decimal(seconds \div 60) \o "m"
        /\ (3600 <= seconds /\ seconds < 86400)
               => formatted = TwoUnits(seconds \div 3600, "h", UnitMinutes(seconds), "m")
        /\ seconds >= 86400
               => formatted = TwoUnits(UnitDays(seconds), "d", UnitHours(seconds), "h")
        /\ seconds = 30 => formatted = "30s"
        /\ seconds = 90 => formatted = "1m"
        /\ seconds = 3660 => formatted = "1h 1m"
        /\ seconds = 86400 => formatted = "1d"
        /\ seconds = 90000 => formatted = "1d 1h"

\* a day, an hour and some minutes and seconds that are not shown
C17_Witness ==
    /\ Formatted
    /\ seconds = 90000 + 1859
    /\ formatted = "1d 1h"

----------------------------------------------------------------------------
(* The confirmed prefix: what is probed under it and how it grows. *)

\* path is base, one "/" and a candidate that holds no "/"
Anchored(base, path) ==
    /\ Len(path) > Len(base) + 1
    /\ SubSeq(path, 1, Len(base) + 1) = base \o <<"/">>
    /\ \A k \in (Len(base) + 2)..Len(path) : path[k] # "/"

\* C21: probe anchoring.  Every path the resolver probes and every path it
\* returns is the confirmed prefix, exactly one "/" and the candidate, also
\* for the initial empty prefix, where candidate c is probed as "/" + c.
C21_ProbesAnchored ==
    [][\A p \in Procs :
          ResolverStep(p)
              => /\ \A k \in (Len(probes[p]) + 1)..Len(probes'[p]) :
                        Anchored(current_path[p], probes'[p][k])
                 /\ current_path'[p] # current_path[p]
                        => Anchored(current_path[p], current_path'[p])
                 /\ branch'[p] = "resolved"
                        => Anchored(current_path[p], result'[p])]_vars

\* s is a string prefix of t
IsPrefix(s, t) == Len(s) <= Len(t) /\ SubSeq(t, 1, Len(s)) = s

\* C22: the confirmed prefix is monotonic and confirmed.  During one decode
\* current_path starts empty, each new value has the previous value as a
\* proper string prefix, and every value it is given is the path the last
\* existence probe of that step asked about and found.
C22_PrefixMonotonicAndConfirmed ==
    [][\A p \in Procs :
          /\ (pc[p] = "idle" /\ pc'[p] = "scan") => current_path'[p] = Empty
          /\ (pc[p] = "scan" /\ current_path'[p] # current_path[p])
                 => /\ IsPrefix(current_path[p], current_path'[p])
                    /\ Len(current_path'[p]) > Len(current_path[p])
                    /\ Len(probes'[p]) > Len(probes[p])
                    /\ probes'[p][Len(probes'[p])] = current_path'[p]
                    /\ OsPathExists(current_path'[p])]_vars

\* "-a-a-a" with /a/a existing: the prefix grew from "" to "/a" to "/a/a",
\* each value probed and found
C22_Witness ==
    \E p \in Procs :
        /\ Done(p)
        /\ encoded_name[p] = <<"-", "a", "-", "a", "-", "a">>
        /\ current_path[p] = <<"/", "a", "/", "a">>
        /\ probes[p] = << <<"/", "a">>, <<"/", "a", "/", "a">> >>
        /\ result[p] = <<"/", "a", "/", "a", "/", "a">>

----------------------------------------------------------------------------
(* Termination of a decode. *)

\* the number of delimiters in a string
Delimiters(str) == Cardinality({k \in 1..Len(str) : str[k] = "-"})

\* C23: termination.  Every decode finishes: an iteration of the scan loop
\* that does not return moves the cursor just past the next delimiter, so
\* there are at most (delimiters + 1) iterations; the resolver's recursion
\* for a leading empty segment is at most 2 deep; and a call that is
\* scanning reaches its return.
C23_Termination ==
    /\ [][\A p \in Procs :
             (pc[p] = "scan" /\ pc'[p] = "scan" /\ iterations'[p] # iterations[p])
                 => /\ i'[p] > i[p]
                    /\ encoded[p][i'[p]] = "-"
                    /\ \A k \in (i[p] + 1)..(i'[p] - 1) : encoded[p][k] # "-"]_vars
    /\ [](\A p \in Procs :
             /\ iterations[p] <= Delimiters(encoded[p]) + 1
             /\ ResolverCalled(p)
                    => try_segment_combinations(current_path[p], RunAhead(p)).depth <= 2)
    /\ (pc[1] = "scan") ~> (pc[1] = "done")

\* "--a-a-" decoded: three iterations for the three delimiters after the
\* leading one, the marker-led run resolved two activations deep, and the
\* call has returned
C23_Witness ==
    \E p \in Procs :
        /\ Done(p)
        /\ encoded_name[p] = <<"-", "-", "a", "-", "a", "-">>
        /\ iterations[p] = Delimiters(encoded[p])
        /\ try_segment_combinations(current_path[p], unmatched_segments[p]).depth = 2

----------------------------------------------------------------------------
(* The result against the name it was decoded from. *)

\* C24: re-encoding the result gives back the input.  For every delimiter-led
\* name and every filesystem, replacing each "/", "." and "_" of the returned
\* path by "-" yields the name: no character is dropped, added or reordered.
C24_ReencodeGivesName ==
    \A p \in Procs :
        (Done(p) /\ LeadsWithDelimiter(encoded_name[p]))
            => Encode(result[p]) = encoded_name[p]

----------------------------------------------------------------------------
(* Two callers without a lock. *)

\* the cache after the calls made so far, run one after another in any order
SequentialCache == [name \in DOMAIN returned |-> decode_project_path(name)]

\* C25: unsynchronised interleaving is benign on a fixed filesystem.  With two
\* callers interleaved at any point between the cache check, the probes and
\* the cache write, for the same name or for different names, every call
\* returns what decode_project_path returns run alone, and the cache holds
\* what it holds after the same calls run one after another.
C25_InterleavingBenign ==
    /\ \A p \in Procs : Done(p) => result[p] = decode_project_path(encoded_name[p])
    /\ \A name \in DOMAIN returned : returned[name] = {decode_project_path(name)}
    /\ _path_cache = SequentialCache

\* both callers missed the cache for the same name, scanned side by side and
\* wrote one after the other; each was handed the path found on the filesystem
C25_Witness ==
    /\ Done(1) /\ Done(2)
    /\ encoded_name[1] = <<"-", "a", "-", "a">>
    /\ encoded_name[2] = <<"-", "a", "-", "a">>
    /\ branch[1] = "appended" /\ branch[2] = "appended"
    /\ probes[1] = << <<"/", "a">> >> /\ probes[2] = << <<"/", "a">> >>
    /\ result[1] = <<"/", "a", "/", "a">>
    /\ result[2] = <<"/", "a", "/", "a">>

\* two callers at once between the cache check and the cache write, on
\* different names
C25_WitnessDifferentNames ==
    /\ pc[1] = "store" /\ pc[2] = "store"
    /\ encoded_name[1] = <<"a">>
    /\ encoded_name[2] = <<"-", "-", "a">>
    /\ _path_cache = Empty

----------------------------------------------------------------------------
(* Three or more delimiters in a row. *)

\* path.split("/")
RECURSIVE Split(_)
Split(path) ==
    LET nd == Find(path, "/", 0)
    IN  IF nd = -1 THEN <<path>>
        ELSE <<Slice(path, 0, nd)>> \o Split(Slice(path, nd + 1, Len(path)))

\* the run handed to the resolver is the empty-segment marker alone
MarkerAlone(p) == RunAhead(p) = <<Empty>>

\* C26: three or more consecutive delimiters.  When the unmatched run handed
\* to the resolver holds only the empty-segment marker, the scan does not
\* adopt a bare ".", "_" or "-" as confirmed prefix, and no returned path has
\* a component that is exactly ".".
C26_NoBareComponent ==
    /\ [][\A p \in Procs :
              (ResolverStep(p) /\ MarkerAlone(p))
                  => current_path'[p] = current_path[p]]_vars
    /\ [](\A p \in Procs : Done(p) => <<".">> \notin Range(Split(result[p])))

====
